---- MODULE Spec2Model ----
(***************************************************************************)
(* Model of fetch_emails_graph.py: authenticate_graph() followed by the    *)
(* single Graph request and the printing loop of fetch_emails_graph().     *)
(* The MSAL application, the browser, and the HTTP server are the          *)
(* environment: each call into them picks one of the outcomes the code     *)
(* distinguishes.  Text is a sequence of string fragments (TLA+ has no     *)
(* string concatenation); stdout and stderr are sequences of such lines.   *)
(***************************************************************************)
EXTENDS Integers, Sequences, FiniteSets, TLC

VARIABLES pc, accounts, result, silentResult, deviceResult, flow, token,
          request, response, emails, idx, console, stderr, exc, opened, calls

vars == <<pc, accounts, result, silentResult, deviceResult, flow, token,
          request, response, emails, idx, console, stderr, exc, opened, calls>>

(* ---------------------------- bounds ----------------------------------- *)
\* largest number of message objects in one response body
MaxEmails == 2

(* ------------------------ program constants ---------------------------- *)
CLIENT_ID == "14d82eec-204b-4c2f-b7e8-296a70dab67e"
TENANT_ID == "common"
SCOPES == <<"User.Read", "Mail.Read">>
Endpoint == "https://graph.microsoft.com/v1.0/me/messages"
Params == [top |-> <<"5">>, orderby |-> <<"receivedDateTime desc">>,
           select |-> <<"subject,from,receivedDateTime,bodyPreview">>]

(* --------------------------- Python values ----------------------------- *)
\* Optional value: <<>> is None, <<v>> is the value v
None == <<>>
Some(v) == <<v>>

\* dict.get(k) for a dict of strings, as interpolated by an f-string
StrGet(d, k) == IF k \in DOMAIN d THEN d[k] ELSE "None"

\* JSON values of the response body
JNull == [t |-> "null"]
JStr(s) == [t |-> "str", s |-> s]
JObj(d) == [t |-> "obj", o |-> d]
EmptyDict == [k \in {} |-> JNull]

\* d.get(k, default) on a dict
DictGet(d, k, default) == IF k \in DOMAIN d THEN d[k] ELSE default

\* str(v) as an f-string renders it
PyStr(v) == CASE v.t = "str" -> v.s
              [] v.t = "null" -> "None"
              [] OTHER -> IF DOMAIN v.o = {} THEN "{}" ELSE "{...}"

\* type name in the AttributeError raised by v.get on a non-dict
TypeName(v) == IF v.t = "null" THEN "NoneType" ELSE "str"

DigitChar == <<"0", "1", "2", "3", "4", "5", "6", "7", "8", "9">>

\* str(n) for a natural number, one fragment per digit
RECURSIVE Digits(_)
Digits(n) == IF n < 10 THEN <<DigitChar[n + 1]>>
             ELSE Digits(n \div 10) \o <<DigitChar[(n % 10) + 1]>>

\* truth value of `not result` (line 27): None and the empty dict are falsy
NotResultAlways(r) == TRUE
NotResult(r) == r = None \/ DOMAIN r[1] = {}

\* truth value of `not token` (line 53): None and the empty string are falsy
NotTokenNever(t) == FALSE
NotToken(t) == t = None \/ t[1] = ""

(* ------------------------- environment outcomes ------------------------ *)
Tokens == {"tokA", "tokB"}

\* app.get_accounts()
AccountLists == {<<>>, <<"user1">>, <<"user1", "user2">>}

TokenResults == {[access_token |-> t, token_type |-> "Bearer"] : t \in Tokens}
ErrorResults == {[error |-> "authorization_declined",
                  error_description |-> "user declined"],
                 [error |-> "expired_token",
                  error_description |-> "code expired"],
                 [error_description |-> "no code"]}

\* app.acquire_token_silent(...): None, a token result, or an error result
SilentOutcomes == {None} \cup {Some(r) : r \in TokenResults \cup ErrorResults}

\* app.initiate_device_flow(...): a flow with a user code, or an error dict
GoodFlows == {[user_code |-> "ABCD",
               verification_uri |-> "https://microsoft.com/devicelogin",
               message |-> "open the page and enter the code ABCD"]}
BadFlows == {[error |-> "invalid_client",
              error_description |-> "client not found"]}
Flows == GoodFlows \cup BadFlows

\* app.acquire_token_by_device_flow(flow): always a dict
DeviceOutcomes == {Some(r) : r \in TokenResults \cup ErrorResults}

\* json.dumps(d) of a dict of strings: keys in insertion order
FlowKeys == <<"user_code", "verification_uri", "message", "error",
              "error_description">>
JsonDumps(d) ==
  LET ks == SelectSeq(FlowKeys, LAMBDA k : k \in DOMAIN d)
  IN [i \in 1..(2 * Len(ks)) |->
        IF i % 2 = 1 THEN ks[(i + 1) \div 2] ELSE d[ks[i \div 2]]]

\* the `from` member of a message object, at every level of nesting
FullFrom(a) == JObj([emailAddress |-> JObj([address |-> JStr(a)])])
FromValues == {FullFrom("a@x.org"), FullFrom("b@x.org"),
               JNull,
               JObj(EmptyDict),
               JObj([emailAddress |-> JNull]),
               JObj([emailAddress |-> JObj(EmptyDict)]),
               JObj([emailAddress |-> JObj([address |-> JNull])])}

\* message objects of the response
Messages ==
  {[from |-> f, subject |-> JStr("s1"), receivedDateTime |-> JStr("d1"),
    bodyPreview |-> JStr("p1")] : f \in FromValues}
  \cup {[subject |-> JStr("s1"), receivedDateTime |-> JStr("d1"),
         bodyPreview |-> JStr("p1")],
        [from |-> FullFrom("a@x.org"), subject |-> JStr("s2"),
         receivedDateTime |-> JStr("d2"), bodyPreview |-> JStr("p2")],
        [from |-> FullFrom("a@x.org"), subject |-> JNull,
         receivedDateTime |-> JStr("d1")],
        [from |-> FullFrom("b@x.org"), bodyPreview |-> JNull],
        EmptyDict}

MessageLists == UNION {[1..n -> Messages] : n \in 0..MaxEmails}

\* response.json(): <<>> when the body is not JSON, else the decoded dict
Bodies == {None, Some([error |-> JStr("denied")])}
          \cup {Some([value |-> ms]) : ms \in MessageLists}

Statuses == {200, 401, 503}
Responses == [status : Statuses, body : Bodies]

\* response.raise_for_status() raises for 4xx and 5xx
RaisesForStatusNever(s) == FALSE
RaisesForStatus(s) == 400 <= s /\ s < 600

(* ------------------------------ console -------------------------------- *)
Rule == <<"============================================================">>

SuccessLineLeak(t) == <<"Successfully authenticated! token=", t>>
SuccessLine(t) ==
  <<"\nSuccessfully authenticated! Fetching emails via Microsoft Graph...\n">>

Header(i) == <<"--- Email ">> \o Digits(i) \o <<" ---">>

\* email.get('from', {}).get('emailAddress', {}).get('address') (line 80)
FromOf(m) == DictGet(m, "from", JObj(EmptyDict))
AddrOf(m) == DictGet(FromOf(m).o, "emailAddress", JObj(EmptyDict))
SenderRaises(m) == FromOf(m).t # "obj" \/ AddrOf(m).t # "obj"
SenderFault(m) == IF FromOf(m).t # "obj" THEN FromOf(m) ELSE AddrOf(m)
Sender(m) == DictGet(AddrOf(m).o, "address", JNull)

\* lines 80-84 for one message
Block(m) ==
  << <<"From:    ", PyStr(Sender(m))>>,
     <<"Subject: ", PyStr(DictGet(m, "subject", JNull))>>,
     <<"Date:    ", PyStr(DictGet(m, "receivedDateTime", JNull))>>,
     <<"Preview: ", PyStr(DictGet(m, "bodyPreview", JNull))>>,
     <<"">> >>

(* ------------------------------- Init ---------------------------------- *)
Init ==
  /\ pc = "get_accounts"
  /\ accounts = <<>>
  /\ result = None
  /\ silentResult = None
  /\ deviceResult = None
  /\ flow = None
  /\ token = None
  /\ request = None
  /\ response = None
  /\ emails = <<>>
  /\ idx = 1
  /\ console = <<>>
  /\ stderr = <<>>
  /\ exc = None
  /\ opened = <<>>
  /\ calls = [silent |-> 0, init |-> 0, poll |-> 0, get |-> 0]

(* ------------------------ authenticate_graph --------------------------- *)
\* lines 14-23: build the app, read the account cache, result = None
GetAccounts ==
  /\ pc = "get_accounts"
  /\ \E a \in AccountLists :
       /\ accounts' = a
       /\ IF a # <<>>
          THEN /\ console' = Append(console,
                     <<"Found cached account, attempting silent login...">>)
               /\ pc' = "silent"
          ELSE /\ console' = console
               /\ pc' = "check_result"
  /\ result' = None
  /\ UNCHANGED <<silentResult, deviceResult, flow, token, request, response,
                 emails, idx, stderr, exc, opened, calls>>

\* line 24
AcquireTokenSilent ==
  /\ pc = "silent"
  /\ \E r \in SilentOutcomes :
       /\ result' = r
       /\ silentResult' = r
  /\ calls' = [calls EXCEPT !.silent = @ + 1]
  /\ pc' = "check_result"
  /\ UNCHANGED <<accounts, deviceResult, flow, token, request, response,
                 emails, idx, console, stderr, exc, opened>>

\* lines 27-28
CheckResult ==
  /\ pc = "check_result"
  /\ IF NotResult(result)
     THEN /\ console' = Append(console,
                <<"No cached token found. Starting interactive login...">>)
          /\ pc' = "init_flow"
     ELSE /\ console' = console
          /\ pc' = "auth_return"
  /\ UNCHANGED <<accounts, result, silentResult, deviceResult, flow, token,
                 request, response, emails, idx, stderr, exc, opened, calls>>

\* lines 30-32: a flow without "user_code" raises ValueError
InitiateDeviceFlow ==
  /\ pc = "init_flow"
  /\ \E f \in Flows :
       /\ flow' = Some(f)
       /\ IF "user_code" \notin DOMAIN f
          THEN /\ exc' = Some([type |-> "ValueError",
                               msg |-> <<"Fail to create device flow. Err: ">>
                                       \o JsonDumps(f)])
               /\ pc' = "auth_raise"
          ELSE /\ exc' = exc
               /\ pc' = "show_code"
  /\ calls' = [calls EXCEPT !.init = @ + 1]
  /\ UNCHANGED <<accounts, result, silentResult, deviceResult, token, request,
                 response, emails, idx, console, stderr, opened>>

\* lines 34-37 without the message
ShowUserCodeSilent ==
  /\ pc = "show_code"
  /\ console' = console \o << <<"\n">> \o Rule, <<"USER ACTION REQUIRED:">>,
                              Rule \o <<"\n">> >>
  /\ pc' = "open_browser"
  /\ UNCHANGED <<accounts, result, silentResult, deviceResult, flow, token,
                 request, response, emails, idx, stderr, exc, opened, calls>>

\* lines 34-37
ShowUserCode ==
  /\ pc = "show_code"
  /\ console' = console \o << <<"\n">> \o Rule, <<"USER ACTION REQUIRED:">>,
                              <<flow[1].message>>, Rule \o <<"\n">> >>
  /\ pc' = "open_browser"
  /\ UNCHANGED <<accounts, result, silentResult, deviceResult, flow, token,
                 request, response, emails, idx, stderr, exc, opened, calls>>

\* line 39: the return value of webbrowser.open is discarded
OpenBrowser ==
  /\ pc = "open_browser"
  /\ \E ok \in BOOLEAN :
       opened' = Append(opened, [url |-> flow[1].verification_uri, ok |-> ok])
  /\ pc' = "poll"
  /\ UNCHANGED <<accounts, result, silentResult, deviceResult, flow, token,
                 request, response, emails, idx, console, stderr, exc, calls>>

\* line 41: blocks until approval, denial or expiry
AcquireTokenByDeviceFlow ==
  /\ pc = "poll"
  /\ \E r \in DeviceOutcomes :
       /\ result' = r
       /\ deviceResult' = r
  /\ calls' = [calls EXCEPT !.poll = @ + 1]
  /\ pc' = "auth_return"
  /\ UNCHANGED <<accounts, silentResult, flow, token, request, response,
                 emails, idx, console, stderr, exc, opened>>

\* lines 43-48, and the assignment of line 51
AuthReturn ==
  /\ pc = "auth_return"
  /\ IF "access_token" \in DOMAIN result[1]
     THEN /\ token' = Some(result[1].access_token)
          /\ console' = console
     ELSE /\ token' = None
          /\ console' = console \o
               << <<"Error: ", StrGet(result[1], "error")>>,
                  <<"Description: ", StrGet(result[1], "error_description")>> >>
  /\ pc' = "check_token"
  /\ UNCHANGED <<accounts, result, silentResult, deviceResult, flow, request,
                 response, emails, idx, stderr, exc, opened, calls>>

(* ------------------------ fetch_emails_graph --------------------------- *)
\* lines 53-57
CheckToken ==
  /\ pc = "check_token"
  /\ IF NotToken(token)
     THEN /\ console' = Append(console, <<"Authentication failed. Exiting.">>)
          /\ pc' = "done"
     ELSE /\ console' = Append(console, SuccessLine(token[1]))
          /\ pc' = "http_get"
  /\ UNCHANGED <<accounts, result, silentResult, deviceResult, flow, token,
                 request, response, emails, idx, stderr, exc, opened, calls>>

\* lines 60-73: build the request and send it; requests.get may raise
HttpGet ==
  /\ pc = "http_get"
  /\ request' = Some([endpoint |-> Endpoint,
                      authorization |-> <<"Bearer ", token[1]>>,
                      content_type |-> "application/json",
                      params |-> Params])
  /\ calls' = [calls EXCEPT !.get = @ + 1]
  /\ \/ /\ exc' = Some([type |-> "ConnectionError",
                        msg |-> <<"Failed to establish a connection to ",
                                  Endpoint>>])
        /\ response' = response
        /\ pc' = "except"
     \/ /\ \E r \in Responses : response' = Some(r)
        /\ exc' = exc
        /\ pc' = "raise_for_status"
  /\ UNCHANGED <<accounts, result, silentResult, deviceResult, flow, token,
                 emails, idx, console, stderr, opened>>

\* line 74
RaiseForStatus ==
  /\ pc = "raise_for_status"
  /\ IF RaisesForStatus(response[1].status)
     THEN /\ exc' = Some([type |-> "HTTPError",
                          msg |-> Digits(response[1].status)
                                  \o <<" Error for url: ", Endpoint>>])
          /\ pc' = "except"
     ELSE /\ exc' = exc
          /\ pc' = "parse"
  /\ UNCHANGED <<accounts, result, silentResult, deviceResult, flow, token,
                 request, response, emails, idx, console, stderr, opened,
                 calls>>

\* line 76: response.json().get("value", [])
ParseJson ==
  /\ pc = "parse"
  /\ IF response[1].body = None
     THEN /\ exc' = Some([type |-> "JSONDecodeError",
                          msg |-> <<"Expecting value: line 1 column 1 (char 0)">>])
          /\ emails' = emails
          /\ pc' = "except"
     ELSE /\ emails' = DictGet(response[1].body[1], "value", <<>>)
          /\ exc' = exc
          /\ pc' = "loop"
  /\ idx' = 1
  /\ UNCHANGED <<accounts, result, silentResult, deviceResult, flow, token,
                 request, response, console, stderr, opened, calls>>

\* lines 78-84: one iteration of the loop
PrintEmail ==
  /\ pc = "loop"
  /\ idx <= Len(emails)
  /\ LET m == emails[idx]
     IN IF SenderRaises(m)
        THEN /\ console' = Append(console, Header(idx))
             /\ exc' = Some([type |-> "AttributeError",
                             msg |-> <<"'", TypeName(SenderFault(m)),
                                       "' object has no attribute 'get'">>])
             /\ idx' = idx
             /\ pc' = "except"
        ELSE /\ console' = console \o <<Header(idx)>> \o Block(m)
             /\ exc' = exc
             /\ idx' = idx + 1
             /\ pc' = "loop"
  /\ UNCHANGED <<accounts, result, silentResult, deviceResult, flow, token,
                 request, response, emails, stderr, opened, calls>>

\* line 78: the iterator is exhausted, the function returns
LoopEnd ==
  /\ pc = "loop"
  /\ idx > Len(emails)
  /\ pc' = "done"
  /\ UNCHANGED <<accounts, result, silentResult, deviceResult, flow, token,
                 request, response, emails, idx, console, stderr, exc, opened,
                 calls>>

\* lines 86-87 followed by another GET
HandleExceptionRetry ==
  /\ pc = "except"
  /\ console' = Append(console, <<"An error occurred: ">> \o exc[1].msg)
  /\ exc' = None
  /\ pc' = "http_get"
  /\ UNCHANGED <<accounts, result, silentResult, deviceResult, flow, token,
                 request, response, emails, idx, stderr, opened, calls>>

\* lines 86-87
HandleException ==
  /\ pc = "except"
  /\ console' = Append(console, <<"An error occurred: ">> \o exc[1].msg)
  /\ exc' = None
  /\ pc' = "done"
  /\ UNCHANGED <<accounts, result, silentResult, deviceResult, flow, token,
                 request, response, emails, idx, stderr, opened, calls>>

\* lines 51 and 90: the ValueError of line 32 meets no handler; the
\* interpreter writes the traceback to stderr and the process ends
UncaughtException ==
  /\ pc = "auth_raise"
  /\ stderr' = stderr \o << <<"Traceback (most recent call last):">>,
                            <<exc[1].type, ": ">> \o exc[1].msg >>
  /\ pc' = "crashed"
  /\ UNCHANGED <<accounts, result, silentResult, deviceResult, flow, token,
                 request, response, emails, idx, console, exc, opened, calls>>

Next ==
  \/ GetAccounts
  \/ AcquireTokenSilent
  \/ CheckResult
  \/ InitiateDeviceFlow
  \/ ShowUserCode
  \/ OpenBrowser
  \/ AcquireTokenByDeviceFlow
  \/ AuthReturn
  \/ CheckToken
  \/ HttpGet
  \/ RaiseForStatus
  \/ ParseJson
  \/ PrintEmail
  \/ LoopEnd
  \/ HandleException
  \/ UncaughtException

Spec == Init /\ [][Next]_vars

(* ------------------------ vocabulary of the claims --------------------- *)
HasLine(out, l) == \E i \in DOMAIN out : out[i] = l

\* control is past the return of authenticate_graph
AfterAuth == {"check_token", "http_get", "raise_for_status", "parse", "loop",
              "except", "done"}

\* number of "--- Email N ---" headers on the console
EmailHeaders ==
  Cardinality({i \in DOMAIN console : console[i][1] = "--- Email "})

ErrorLinePrinted ==
  \E i \in DOMAIN console : console[i][1] = "An error occurred: "

UserCodeShown ==
  /\ flow # None
  /\ "message" \in DOMAIN flow[1]
  /\ HasLine(console, <<flow[1].message>>)

AuthErrorPrinted ==
  /\ HasLine(console, <<"Error: ", StrGet(result[1], "error")>>)
  /\ HasLine(console,
             <<"Description: ", StrGet(result[1], "error_description")>>)

\* the silent acquisition for a cached account produced an access token
SilentToken ==
  /\ accounts # <<>>
  /\ silentResult # None
  /\ "access_token" \in DOMAIN silentResult[1]

\* the sender address a message carries, "None" when it is missing or null
\* at any level
ExpectedSender(m) ==
  IF /\ "from" \in DOMAIN m
     /\ m["from"].t = "obj"
     /\ "emailAddress" \in DOMAIN m["from"].o
     /\ m["from"].o["emailAddress"].t = "obj"
     /\ "address" \in DOMAIN m["from"].o["emailAddress"].o
     /\ m["from"].o["emailAddress"].o["address"].t = "str"
  THEN m["from"].o["emailAddress"].o["address"].s
  ELSE "None"

FieldText(m, k) == IF k \in DOMAIN m /\ m[k].t = "str" THEN m[k].s ELSE "None"

ExpectedBlock(m) ==
  << <<"From:    ", ExpectedSender(m)>>,
     <<"Subject: ", FieldText(m, "subject")>>,
     <<"Date:    ", FieldText(m, "receivedDateTime")>>,
     <<"Preview: ", FieldText(m, "bodyPreview")>>,
     <<"">> >>

RECURSIVE ExpectedOutput(_)
ExpectedOutput(ms) ==
  IF ms = <<>> THEN <<>>
  ELSE ExpectedOutput(SubSeq(ms, 1, Len(ms) - 1))
       \o <<Header(Len(ms))>> \o ExpectedBlock(ms[Len(ms)])

\* the complete block of message i of ms is on the console
BlockPrinted(ms, i) ==
  \E k \in DOMAIN console :
    /\ k + 5 <= Len(console)
    /\ SubSeq(console, k, k + 5) = <<Header(i)>> \o ExpectedBlock(ms[i])

\* the GET came back 2xx with a JSON body
FetchSucceeded ==
  /\ response # None
  /\ response[1].status \in 200..299
  /\ response[1].body # None

ResponseMessages == DictGet(response[1].body[1], "value", <<>>)

\* what the console holds after the "Successfully authenticated" line
FetchOutput ==
  LET s == CHOOSE k \in DOMAIN console : console[k] = SuccessLine(token[1])
  IN SubSeq(console, s + 1, Len(console))

(* -------------------------------- C1 ----------------------------------- *)
\* C1: when a cached account exists and the silent acquisition returns a
\* result with an access token, the device-code flow is never entered (no
\* initiate_device_flow, no user-code message, no browser launch, no
\* polling call) and authenticate_graph returns exactly that token.
C1_SilentTokenSkipsDeviceFlow ==
  SilentToken =>
    /\ calls.init = 0
    /\ calls.poll = 0
    /\ flow = None
    /\ opened = <<>>
    /\ ~HasLine(console, <<"USER ACTION REQUIRED:">>)
    /\ pc \notin {"init_flow", "show_code", "open_browser", "poll",
                  "auth_raise", "crashed"}
    /\ (pc \in AfterAuth => token = Some(silentResult[1].access_token))

C1_Witness ==
  /\ SilentToken
  /\ pc = "check_token"
  /\ token = Some(silentResult[1].access_token)

(* -------------------------------- C2 ----------------------------------- *)
\* C2: when there is no cached account or the silent acquisition returns
\* nothing, the user-code message is on the console before the polling
\* call starts, and a token is held only once the polling call has
\* returned a result with an access token, which is the token returned.
C2_CodeShownBeforePollTokenAfter ==
  (pc \notin {"get_accounts", "silent"} /\ silentResult = None) =>
    /\ (pc = "poll" \/ calls.poll > 0) => UserCodeShown
    /\ token # None =>
         /\ calls.poll = 1
         /\ deviceResult # None
         /\ "access_token" \in DOMAIN deviceResult[1]
         /\ token = Some(deviceResult[1].access_token)
    /\ (pc \in AfterAuth /\ token = None) =>
         (deviceResult # None /\ "access_token" \notin DOMAIN deviceResult[1])

C2_Witness ==
  /\ silentResult = None
  /\ pc = "check_token"
  /\ token # None
  /\ UserCodeShown

(* -------------------------------- C3 ----------------------------------- *)
\* authentication did not complete: authenticate_graph returned no token
\* or left by the exception of line 32
AuthFailed ==
  \/ pc \in {"auth_raise", "crashed"}
  \/ (pc \in AfterAuth /\ token = None)

\* C3: when authentication does not complete, no GET is issued to the mail
\* endpoint, no "--- Email N ---" header is printed, and the run ends with
\* the error printed: the provider's error and description followed by
\* "Authentication failed. Exiting." on the console, or the traceback of
\* the unhandled ValueError, carrying the flow's error, on stderr.
C3_AuthFailureFetchesNothing ==
  AuthFailed =>
    /\ calls.get = 0
    /\ request = None
    /\ response = None
    /\ EmailHeaders = 0
    /\ pc \in {"check_token", "done", "auth_raise", "crashed"}
    /\ pc = "done" =>
         /\ AuthErrorPrinted
         /\ console[Len(console)] = <<"Authentication failed. Exiting.">>
    /\ pc = "crashed" =>
         HasLine(stderr, <<"ValueError", ": ",
                           "Fail to create device flow. Err: ">>
                         \o JsonDumps(flow[1]))

C3_Witness ==
  /\ AuthFailed
  /\ pc = "done"
  /\ calls.poll = 1
  /\ calls.get = 0

(* -------------------------------- C4 ----------------------------------- *)
\* C4: every authentication failure, a device-flow response without a user
\* code included, makes authenticate_graph return no token after printing
\* the provider's error code and description; it never leaves by raising.
C4_AuthFailureIsReturned ==
  /\ pc # "auth_raise"
  /\ (pc \in AfterAuth /\ token = None) => AuthErrorPrinted

(* -------------------------------- C5 ----------------------------------- *)
\* C5: after a 2xx response whose JSON body holds N message objects under
\* "value", the console holds exactly the N blocks "--- Email 1 ---" to
\* "--- Email N ---" in input order, block i showing sender, subject, date
\* and preview of element i; a body without "value" gives no block and no
\* error.
C5_BlocksMatchResponse ==
  (pc = "done" /\ FetchSucceeded) =>
    /\ FetchOutput = ExpectedOutput(ResponseMessages)
    /\ EmailHeaders = Len(ResponseMessages)
    /\ ~ErrorLinePrinted

(* -------------------------------- C6 ----------------------------------- *)
\* C6: a message without a sender address at any level of nesting (a
\* missing member or a null one) still gets its block, with an absent
\* sender, and the blocks of all following messages are printed; the
\* missing field never fails the operation.
C6_MissingSenderTolerated ==
  (pc = "done" /\ FetchSucceeded) =>
    \A i \in DOMAIN ResponseMessages :
      ExpectedSender(ResponseMessages[i]) = "None" =>
        /\ \A j \in i..Len(ResponseMessages) :
             BlockPrinted(ResponseMessages, j)
        /\ ~ErrorLinePrinted

(* -------------------------------- C7 ----------------------------------- *)
\* the GET failed at transport level or came back non-2xx
FetchFailed ==
  /\ calls.get >= 1
  /\ (response = None \/ response[1].status \notin 200..299)

TokenFree(out) ==
  \A i \in DOMAIN out : \A j \in DOMAIN out[i] : out[i][j] \notin Tokens

\* C8: no token value ever appears in a line printed to the console (or
\* written to stderr) nor in the URL handed to the browser; the token held
\* by the run goes into the Authorization header of the request and
\* nowhere else.
C8_TokenNeverPrinted ==
  /\ TokenFree(console)
  /\ TokenFree(stderr)
  /\ \A i \in DOMAIN opened : opened[i].url \notin Tokens
  /\ request # None =>
       /\ token # None
       /\ request[1].authorization = <<"Bearer ", token[1]>>
       /\ request[1].endpoint \notin Tokens

C8_Witness ==
  /\ pc = "done"
  /\ token # None
  /\ request # None
  /\ EmailHeaders = 2
  /\ calls.poll = 1

(* -------------------------------- C9 ----------------------------------- *)
\* C9: every run ends by returning normally from fetch_emails_graph; no
\* outcome of the cache lookup, the flow initiation, the polling or the
\* GET ends the run as an unhandled exception.
C9_NoUnhandledException ==
  /\ pc # "crashed"
  /\ stderr = <<>>

(* -------------------------------- C10 ---------------------------------- *)
\* C10: within one run each step is attempted at most once: one silent
\* acquisition, one flow initiation, one polling call, one GET; a step that
\* has failed is not attempted again.
C10_NoRetry ==
  /\ \A k \in DOMAIN calls : calls[k] <= 1
  /\ Len(opened) <= 1

C10_Witness ==
  /\ pc = "done"
  /\ calls.silent = 1
  /\ calls.init = 1
  /\ calls.poll = 1
  /\ calls.get = 1
  /\ response = None
  /\ ErrorLinePrinted

====
